---------------------------- MODULE Spec2Model ----------------------------
(***************************************************************************)
(* BlueShield coastal early-warning service.                               *)
(*                                                                         *)
(*   src/data/weather_collector.py   OpenWeatherCollector: the scalar and  *)
(*                                   the batch flood-risk feature          *)
(*                                   extractors.                           *)
(*   src/src/api/prediction_api.py   module-level model loading, and the   *)
(*                                   POST /predict/ and                    *)
(*                                   POST /predict-live/{location}         *)
(*                                   handlers.                             *)
(*                                                                         *)
(* Numbers.  The code computes in floating point; the model computes the   *)
(* same expressions exactly, in fixed point:                               *)
(*   - a feature value, a forecast and a threshold are integers counting   *)
(*     1/Scale (1/2000) of a unit: 7.4 is 14800, 8.0 is 16000, 6.5 is      *)
(*     13000, 5.0 is 10000, 0.1 is 200;                                    *)
(*   - a pressure is an integer counting 1/100 hPa: 1013.25 is 101325;     *)
(*   - wind speed (m/s), wind direction (degrees), humidity (%) and        *)
(*     temperature (C) are whole numbers.                                  *)
(* With these units every term of the extractor's formula is an integer.   *)
(***************************************************************************)
EXTENDS Integers, Sequences, FiniteSets, TLC

(***************************************************************************)
(* Bounds of the model.                                                    *)
(***************************************************************************)
\* Inputs (feature vectors, forecast lists) are 0 .. EXPECTED_TIME_STEPS + MaxExtra long.
MaxExtra == 10
\* Batch-extractor inputs are 0 .. MaxBatch observations long.
MaxBatch == 4

(***************************************************************************)
(* Program constants.                                                      *)
(***************************************************************************)
\* Fixed-point unit: values are counted in 1/Scale.
Scale == 2000
\* prediction_api.py:62   FORECAST_THRESHOLD = 8.0
FORECAST_THRESHOLD == 8 * Scale
\* prediction_api.py:110  the literal 6.5
MEDIUM_THRESHOLD == (13 * Scale) \div 2
\* prediction_api.py:63   EXPECTED_TIME_STEPS = 40
EXPECTED_TIME_STEPS == 40
\* test_prediction.py:7   the test posts [0.1]*50
TEST_FEATURE_COUNT == 50
\* weather_collector.py:92,103   1013.25 hPa, in 1/100 hPa
STANDARD_PRESSURE == 101325
\* weather_collector.py:93   default wind speed
DEFAULT_WIND_SPEED == 0
\* weather_collector.py:94   default wind direction
DEFAULT_WIND_DEG == 0
\* weather_collector.py:95   default humidity
DEFAULT_HUMIDITY == 50
\* weather_collector.py:96   default temperature
DEFAULT_TEMP == 15
\* weather_collector.py:113  return 5.0
DEFAULT_SAFE_VALUE == 5 * Scale

ANOMALY_ALERT == "ANOMALY DETECTED - Unusual patterns in data!"
FLOOD_ALERT == "FLOOD RISK ALERT - High water levels predicted!"
NoAlert == "None"

(***************************************************************************)
(* Weather observations (the items of the provider's JSON).                *)
(*                                                                         *)
(* A field is [tag, val]:                                                  *)
(*   "num"    a number, val;                                               *)
(*   "absent" the key is not in its section;                               *)
(*   "other"  a value arithmetic rejects (null, a string);                 *)
(*   "array"  a list of numbers: numpy's radians/sin accept it, so as a    *)
(*            wind direction it raises nothing.                            *)
(* An observation is                                                       *)
(*   shape  "dict", or "other" for an item that is no mapping (null, a     *)
(*          number): .get on it raises AttributeError and `in` TypeError;  *)
(*   main, wind   "dict", "absent" (no such key) or "other" (the key holds *)
(*          something that has no .get);                                   *)
(*   pressure, humidity, temp (of main), speed, deg (of wind): fields.     *)
(***************************************************************************)
Num(v) == [tag |-> "num", val |-> v]
Absent == [tag |-> "absent", val |-> 0]
Other == [tag |-> "other", val |-> 0]
Array == [tag |-> "array", val |-> 0]

Observation(sh, m, w, p, h, t, s, d) ==
  [shape |-> sh, main |-> m, wind |-> w,
   pressure |-> p, humidity |-> h, temp |-> t, speed |-> s, deg |-> d]

\* {}: every field falls back to its default.
EmptyObservation ==
  Observation("dict", "absent", "absent", Absent, Absent, Absent, Absent, Absent)
\* An item that is no mapping.
MalformedObservation ==
  Observation("other", "absent", "absent", Absent, Absent, Absent, Absent, Absent)

\* section.get(key, default): the field itself when the section and the key exist.
Get(section, fld, default) ==
  IF section = "dict" /\ fld.tag # "absent" THEN fld ELSE Num(default)

Max(a, b) == IF a >= b THEN a ELSE b

\* Lines 103-107 in units of 1/Scale.
PressureFactor(pressure) == STANDARD_PRESSURE - pressure
WindFactor(wind_speed) == (Scale \div 10) * wind_speed
HumidityFactor(humidity) == (Scale \div 100) * humidity
TempTerm(temp) == (Scale \div 50) * temp

FloodRiskScore(pressure, wind_speed, humidity, temp) ==
  PressureFactor(pressure) + WindFactor(wind_speed) + HumidityFactor(humidity)
    + TempTerm(temp)

\* Line 109 with the floor left out.
ScaleToLevelNoFloor(flood_risk_score) == flood_risk_score * 3 + 5 * Scale
\* Line 109: max(0, flood_risk_score * 3 + 5).
ScaleToLevel(flood_risk_score) == Max(0, flood_risk_score * 3 + 5 * Scale)

\* Whether the try block of _extract_single_feature raises.
ExtractRaises(weather_item) ==
  \/ weather_item.shape # "dict"
  \/ weather_item.main = "other"
  \/ weather_item.wind = "other"
  \/ Get(weather_item.main, weather_item.pressure, STANDARD_PRESSURE).tag # "num"
  \/ Get(weather_item.wind, weather_item.speed, DEFAULT_WIND_SPEED).tag # "num"
  \/ Get(weather_item.wind, weather_item.deg, DEFAULT_WIND_DEG).tag = "other"
  \/ Get(weather_item.main, weather_item.humidity, DEFAULT_HUMIDITY).tag # "num"
  \/ Get(weather_item.main, weather_item.temp, DEFAULT_TEMP).tag # "num"

\* sin(radians(deg)) in thousandths, tabulated for the directions the model
\* uses (0, 45, 90, 180, 270, 359).
SinMilli(deg) ==
  CASE deg = 45 -> 707
    [] deg = 90 -> 1000
    [] deg = 270 -> -1000
    [] deg = 359 -> -17
    [] OTHER -> 0

\* The wind factor taken from wind_pressure (line 99) instead of wind_speed.
ExtractUsingWindPressure(weather_item) ==
  IF ExtractRaises(weather_item) THEN DEFAULT_SAFE_VALUE
  ELSE LET pressure == Get(weather_item.main, weather_item.pressure, STANDARD_PRESSURE).val
           wind_speed == Get(weather_item.wind, weather_item.speed, DEFAULT_WIND_SPEED).val
           wind_deg == Get(weather_item.wind, weather_item.deg, DEFAULT_WIND_DEG)
           wind_pressure == IF wind_deg.tag = "num"
                            THEN (wind_speed * SinMilli(wind_deg.val)) \div 1000
                            ELSE wind_speed
           humidity == Get(weather_item.main, weather_item.humidity, DEFAULT_HUMIDITY).val
           temp == Get(weather_item.main, weather_item.temp, DEFAULT_TEMP).val
       IN ScaleToLevel(FloodRiskScore(pressure, wind_pressure, humidity, temp))
\* OpenWeatherCollector._extract_single_feature.  wind_pressure (line 99) is
\* computed and not used.
ExtractSingleFeature(weather_item) ==
  IF ExtractRaises(weather_item) THEN DEFAULT_SAFE_VALUE
  ELSE LET pressure == Get(weather_item.main, weather_item.pressure, STANDARD_PRESSURE).val
           wind_speed == Get(weather_item.wind, weather_item.speed, DEFAULT_WIND_SPEED).val
           wind_deg == Get(weather_item.wind, weather_item.deg, DEFAULT_WIND_DEG)
           wind_pressure == IF wind_deg.tag = "num"
                            THEN (wind_speed * SinMilli(wind_deg.val)) \div 1000
                            ELSE wind_speed
           humidity == Get(weather_item.main, weather_item.humidity, DEFAULT_HUMIDITY).val
           temp == Get(weather_item.main, weather_item.temp, DEFAULT_TEMP).val
       IN ScaleToLevel(FloodRiskScore(pressure, wind_speed, humidity, temp))

\* 'main' in item, for an item that is a mapping.
HasMainKey(item) == item.main # "absent"

\* The loop with each feature put in front of the list instead of appended.
RECURSIVE BatchLoopReversed(_, _)
BatchLoopReversed(items, i) ==
  IF i > Len(items) THEN <<>>
  ELSE IF HasMainKey(items[i])
       THEN BatchLoopReversed(items, i + 1) \o <<ExtractSingleFeature(items[i])>>
       ELSE BatchLoopReversed(items, i + 1)
\* The loop of lines 78-82 over items[i..]: a feature per item that has 'main'.
RECURSIVE BatchLoop(_, _)
BatchLoop(items, i) ==
  IF i > Len(items) THEN <<>>
  ELSE IF HasMainKey(items[i])
       THEN <<ExtractSingleFeature(items[i])>> \o BatchLoop(items, i + 1)
       ELSE BatchLoop(items, i + 1)

\* OpenWeatherCollector.extract_flood_risk_features.  On a list, `in` raises
\* TypeError on an item that is no mapping, and nothing catches it; anything
\* that is not a list is taken as one observation (data.items holds it).
ExtractFloodRiskFeatures(data) ==
  IF data.is_list
  THEN IF \E i \in 1..Len(data.items) : data.items[i].shape # "dict"
       THEN [raised |-> TRUE, features |-> <<>>]
       ELSE [raised |-> FALSE, features |-> BatchLoop(data.items, 1)]
  ELSE [raised |-> FALSE, features |-> <<ExtractSingleFeature(data.items[1])>>]

(***************************************************************************)
(* The API process: prediction_api.py.                                     *)
(***************************************************************************)
\* weather_collector.py:116-122
COASTAL_LOCATIONS == {"new_york", "miami", "boston", "san_francisco", "charleston"}

VARIABLES
  startup,            \* position in the module-level code of lines 44-57
  lstm_model,         \* "unset", "loaded" or "None"
  iso_forest,         \* "unset", "loaded" or "None"
  load_error,         \* which load raised into line 50: "none", "lstm_model", "iso_forest"
  weather_collector,  \* "unset", "configured" or "None"
  op,                 \* the operation in progress
  pc,                 \* its position
  input,              \* predict: input_data.features
  location,           \* predict_live: the path parameter
  forecast_data,      \* predict_live: the items of the fetched forecast's 'list'
  features,           \* predict_live: the list built by lines 152-155
  x,                  \* the array handed to the models
  forecast,           \* lstm_model.predict(...)[0][0]
  anomaly,            \* iso_forest.predict(...)[0]
  calls,              \* the calls made to the collaborators, in order
  raised,             \* what raised inside the handler's try block
  response,           \* the HTTP response
  weather_data,       \* the extractors' argument
  result              \* the extractors' return value

vars == <<startup, lstm_model, iso_forest, load_error, weather_collector, op, pc,
          input, location, forecast_data, features, x, forecast, anomaly, calls,
          raised, response, weather_data, result>>

process_vars == <<startup, lstm_model, iso_forest, load_error, weather_collector>>
request_vars == <<op, pc, input, location, forecast_data, features, x, forecast,
                  anomaly, calls, raised, response, weather_data, result>>

NoResponse ==
  [status |-> 0, detail |-> "", cause |-> "", has_result |-> FALSE,
   forecast |-> 0, anomaly |-> 0, risk_level |-> "", alert |-> "",
   data_source |-> "", has_stats |-> FALSE,
   average_feature |-> <<0, 1>>, min_feature |-> 0, max_feature |-> 0]

\* raise HTTPException(status_code=status, detail=f"{detail}{cause}")
ErrorResponse(status, detail, cause) ==
  [NoResponse EXCEPT !.status = status, !.detail = detail, !.cause = cause]

NoResult == [raised |-> FALSE, features |-> <<>>]
NoWeatherData == [is_list |-> TRUE, items |-> <<>>]

Init ==
  /\ startup = "load_lstm"
  /\ lstm_model = "unset"
  /\ iso_forest = "unset"
  /\ load_error = "none"
  /\ weather_collector = "unset"
  /\ op = "none"
  /\ pc = "idle"
  /\ input = <<>>
  /\ location = ""
  /\ forecast_data = <<>>
  /\ features = <<>>
  /\ x = <<>>
  /\ forecast = 0
  /\ anomaly = 0
  /\ calls = <<>>
  /\ raised = "none"
  /\ response = NoResponse
  /\ weather_data = NoWeatherData
  /\ result = NoResult

(***************************************************************************)
(* Startup: lines 44-57.                                                   *)
(***************************************************************************)
\* The except clause leaving a handle that was already loaded in place.
LoadFailureKeepsLoaded(lstm, iso) ==
  [lstm_model |-> IF lstm = "loaded" THEN "loaded" ELSE "None", iso_forest |-> "None"]
\* Lines 50-53: the except clause sets both handles to None.
LoadFailureHandles(lstm, iso) ==
  [lstm_model |-> "None", iso_forest |-> "None"]

\* Line 46: tf.keras.models.load_model either returns or raises.
LoadLstm ==
  /\ startup = "load_lstm"
  /\ \E ok \in BOOLEAN :
       IF ok
       THEN /\ lstm_model' = "loaded"
            /\ startup' = "load_iso"
            /\ UNCHANGED <<iso_forest, load_error>>
       ELSE /\ lstm_model' = LoadFailureHandles(lstm_model, iso_forest).lstm_model
            /\ iso_forest' = LoadFailureHandles(lstm_model, iso_forest).iso_forest
            /\ load_error' = "lstm_model"
            /\ startup' = "configure"
  /\ UNCHANGED <<weather_collector, request_vars>>

\* Lines 47-48: open + pickle.load return what the file holds, or raise.  The
\* file may hold a pickled None: then nothing raises, the except clause does
\* not run, and iso_forest is None beside a loaded lstm_model.
LoadIso ==
  /\ startup = "load_iso"
  /\ \E outcome \in {"object", "none", "raise"} :
       IF outcome = "object"
       THEN /\ iso_forest' = "loaded"
            /\ UNCHANGED <<lstm_model, load_error>>
       ELSE IF outcome = "none"
       THEN /\ iso_forest' = "None"
            /\ UNCHANGED <<lstm_model, load_error>>
       ELSE /\ lstm_model' = LoadFailureHandles(lstm_model, iso_forest).lstm_model
            /\ iso_forest' = LoadFailureHandles(lstm_model, iso_forest).iso_forest
            /\ load_error' = "iso_forest"
  /\ startup' = "configure"
  /\ UNCHANGED <<weather_collector, request_vars>>

\* Lines 56-57: a collector only when OPENWEATHER_API_KEY is set.
ConfigureCollector ==
  /\ startup = "configure"
  /\ \E key_set \in BOOLEAN :
       weather_collector' = IF key_set THEN "configured" ELSE "None"
  /\ startup' = "serving"
  /\ UNCHANGED <<lstm_model, iso_forest, load_error, request_vars>>

\* Lines 85 and 143, negated.
ModelsLoaded == lstm_model # "None" /\ iso_forest # "None"


(***************************************************************************)
(* Inputs the environment supplies.                                        *)
(***************************************************************************)
InputLengths == 0 .. (EXPECTED_TIME_STEPS + MaxExtra)

\* Feature vectors posted to /predict/: n times 0.1 (the test's vector),
\* n times 7.4, and the ramp 0.05, 0.10, 0.15, ...
FeatureVector(kind, n) ==
  [i \in 1..n |-> CASE kind = "tenths" -> Scale \div 10
                    [] kind = "defaults" -> (37 * Scale) \div 5
                    [] OTHER -> 100 * i]
FeatureVectorKinds == {"tenths", "defaults", "ramp"}

PressureSamples == <<0, 95000, 101325, 104000, 200000>>
SpeedSamples == <<0, 12, 60>>
DegSamples == <<0, 90, 270, 359>>
HumiditySamples == <<0, 50, 100>>
TempSamples == <<-40, 0, 15, 50>>

Pick(samples, i) == samples[(i % Len(samples)) + 1]

\* The i-th item of a provider forecast list:
\*   "defaults"  {} at every index;
\*   "ramp"      only main.pressure given, falling 0.25 hPa per index, so the
\*               features rise strictly with the index;
\*   "varied"    every field given, cycling through its samples;
\*   "dirty"     malformed items and fields mixed with good ones.
ForecastItem(kind, i) ==
  CASE kind = "defaults" -> EmptyObservation
    [] kind = "ramp" ->
         Observation("dict", "dict", "absent",
                     Num(STANDARD_PRESSURE - 25 * i), Absent, Absent, Absent, Absent)
    [] kind = "varied" ->
         Observation("dict", "dict", "dict",
                     Num(Pick(PressureSamples, i)), Num(Pick(HumiditySamples, i)),
                     Num(Pick(TempSamples, i)), Num(Pick(SpeedSamples, i)),
                     Num(Pick(DegSamples, i)))
    [] OTHER ->
         CASE i % 5 = 0 -> MalformedObservation
           [] i % 5 = 1 -> Observation("dict", "other", "dict",
                                       Absent, Absent, Absent, Num(12), Num(90))
           [] i % 5 = 2 -> Observation("dict", "dict", "dict",
                                       Num(95000), Num(100), Other, Num(12), Array)
           [] i % 5 = 3 -> Observation("dict", "dict", "dict",
                                       Num(95000), Num(100), Num(50), Num(60), Array)
           [] OTHER -> Observation("dict", "dict", "absent",
                                   Num(200000), Absent, Absent, Absent, Absent)
ForecastKinds == {"defaults", "ramp", "varied", "dirty"}
ForecastList(kind, n) == [i \in 1..n |-> ForecastItem(kind, i)]

\* The path parameters tried: two monitored locations and an unknown one.
RequestLocations == {"new_york", "miami", "atlantis"}

RECURSIVE SumSeq(_, _)
SumSeq(s, i) == IF i > Len(s) THEN 0 ELSE s[i] + SumSeq(s, i + 1)
MinSeq(s) == CHOOSE v \in {s[i] : i \in 1..Len(s)} : \A j \in 1..Len(s) : v <= s[j]
MaxSeq(s) == CHOOSE v \in {s[i] : i \in 1..Len(s)} : \A j \in 1..Len(s) : v >= s[j]

\* What the forecaster may return for window w: values around the two
\* thresholds, a negative one, and the window's mean when it is a whole number
\* of units (a forecaster that echoes the mean).
ForecastSamples(w) ==
  {0 - Scale, 0, MEDIUM_THRESHOLD - 1, MEDIUM_THRESHOLD, MEDIUM_THRESHOLD + 1,
   FORECAST_THRESHOLD - 1, FORECAST_THRESHOLD, FORECAST_THRESHOLD + 1,
   9 * Scale}
  \cup (IF Len(w) > 0 /\ SumSeq(w, 1) % Len(w) = 0
        THEN {SumSeq(w, 1) \div Len(w)} ELSE {})

\* IsolationForest.predict: 1 (inlier) or -1 (outlier).
AnomalySamples == {1, -1}

(***************************************************************************)
(* What the handlers hand to the models.                                   *)
(***************************************************************************)
\* x.reshape(1, -1, 1): one sample, len(x) time steps, one channel.
LstmInput(w) == [shape |-> <<1, Len(w), 1>>, data |-> w]
\* The whole window handed to the scorer as one sample of len(x) features.
IsoInputWholeWindow(w) == [shape |-> <<1, Len(w)>>, data |-> w]
\* np.array([[x[-1]]]): one sample of one feature, the last value.
IsoInput(w) == [shape |-> <<1, 1>>, data |-> <<w[Len(w)]>>]
NoArg == [shape |-> <<>>, data |-> <<>>]
Call(fn, arg) == [fn |-> fn, arg |-> arg]


(***************************************************************************)
(* The decision policy, written once in each handler.                      *)
(***************************************************************************)
Verdict(risk_level, alert) == [risk_level |-> risk_level, alert |-> alert]

\* The forecast threshold tested before the anomaly verdict.
ClassifyForecastFirst(fc, an) ==
  IF fc > FORECAST_THRESHOLD THEN Verdict("HIGH", FLOOD_ALERT)
  ELSE IF an = -1 THEN Verdict("HIGH", ANOMALY_ALERT)
  ELSE IF fc > MEDIUM_THRESHOLD THEN Verdict("MEDIUM", NoAlert)
  ELSE Verdict("LOW", NoAlert)
\* prediction_api.py:101-111.
PredictClassify(fc, an) ==
  IF an = -1 THEN Verdict("HIGH", ANOMALY_ALERT)
  ELSE IF fc > FORECAST_THRESHOLD THEN Verdict("HIGH", FLOOD_ALERT)
  ELSE IF fc > MEDIUM_THRESHOLD THEN Verdict("MEDIUM", NoAlert)
  ELSE Verdict("LOW", NoAlert)
\* prediction_api.py:165-174.
LiveClassify(fc, an) ==
  IF an = -1 THEN Verdict("HIGH", ANOMALY_ALERT)
  ELSE IF fc > FORECAST_THRESHOLD THEN Verdict("HIGH", FLOOD_ALERT)
  ELSE IF fc > MEDIUM_THRESHOLD THEN Verdict("MEDIUM", NoAlert)
  ELSE Verdict("LOW", NoAlert)

\* str(e) of what the except clause caught.
ExceptionText(src) ==
  CASE src = "HTTPException" -> "400: Not enough forecast data for prediction"
    [] src = "get_forecast_data" -> "API Error"
    [] OTHER -> "model error"

\* prediction_api.py:123-125.
PredictFailure(src) == ErrorResponse(400, "Prediction error: ", ExceptionText(src))
\* prediction_api.py:192-194.
LiveFailure(src) == ErrorResponse(500, "Live prediction error: ", ExceptionText(src))

\* prediction_api.py:115-122.
PredictResult(fc, an) ==
  [NoResponse EXCEPT !.status = 200, !.has_result = TRUE,
                     !.forecast = fc, !.anomaly = an,
                     !.risk_level = PredictClassify(fc, an).risk_level,
                     !.alert = PredictClassify(fc, an).alert,
                     !.data_source = "Input Features"]
\* prediction_api.py:176-191.
LiveResult(fc, an, fs) ==
  [NoResponse EXCEPT !.status = 200, !.has_result = TRUE,
                     !.forecast = fc, !.anomaly = an,
                     !.risk_level = LiveClassify(fc, an).risk_level,
                     !.alert = LiveClassify(fc, an).alert,
                     !.data_source = "OpenWeather Forecast API",
                     !.has_stats = TRUE,
                     !.average_feature = <<SumSeq(fs, 1), Len(fs)>>,
                     !.min_feature = MinSeq(fs),
                     !.max_feature = MaxSeq(fs)]

(***************************************************************************)
(* POST /predict/                                                          *)
(***************************************************************************)
\* A length check that only refuses inputs that are too short.
PredictLengthAtLeast(fs) == Len(fs) >= EXPECTED_TIME_STEPS
\* Line 89, negated: x.shape[0] == EXPECTED_TIME_STEPS.
PredictLengthOk(fs) == Len(fs) = EXPECTED_TIME_STEPS

\* Lines 84-90: the request arrives and passes or fails the two guards.
PredictRequest ==
  /\ startup = "serving"
  /\ pc = "idle"
  /\ \E kind \in FeatureVectorKinds, n \in InputLengths :
       LET fs == FeatureVector(kind, n) IN
       /\ op' = "predict"
       /\ input' = fs
       /\ IF ~ModelsLoaded
          THEN /\ response' = ErrorResponse(500, "Models not loaded", "")
               /\ pc' = "done"
               /\ x' = x
          ELSE IF ~PredictLengthOk(fs)
          THEN /\ response' = ErrorResponse(400, "Input features length must be 40", "")
               /\ pc' = "done"
               /\ x' = fs
          ELSE /\ response' = response
               /\ pc' = "forecast"
               /\ x' = fs
  /\ UNCHANGED <<process_vars, location, forecast_data, features, forecast, anomaly,
                 calls, raised, weather_data, result>>

\* Lines 94-95: the forecaster is called, and returns or raises.
PredictForecast ==
  /\ op = "predict"
  /\ pc = "forecast"
  /\ calls' = Append(calls, Call("lstm_model.predict", LstmInput(x)))
  /\ \E raises \in BOOLEAN :
       IF raises
       THEN /\ raised' = "lstm_model.predict"
            /\ response' = PredictFailure("lstm_model.predict")
            /\ pc' = "done"
            /\ forecast' = forecast
       ELSE /\ \E v \in ForecastSamples(x) : forecast' = v
            /\ pc' = "anomaly"
            /\ UNCHANGED <<raised, response>>
  /\ UNCHANGED <<process_vars, op, input, location, forecast_data, features, x,
                 anomaly, weather_data, result>>

\* Lines 98-122: the anomaly scorer is called; when it returns, the verdict
\* is classified and the result returned.
PredictAnomaly ==
  /\ op = "predict"
  /\ pc = "anomaly"
  /\ calls' = Append(calls, Call("iso_forest.predict", IsoInput(x)))
  /\ \E raises \in BOOLEAN :
       IF raises
       THEN /\ raised' = "iso_forest.predict"
            /\ response' = PredictFailure("iso_forest.predict")
            /\ anomaly' = anomaly
       ELSE /\ \E a \in AnomalySamples :
                 /\ anomaly' = a
                 /\ response' = PredictResult(forecast, a)
            /\ raised' = raised
  /\ pc' = "done"
  /\ UNCHANGED <<process_vars, op, input, location, forecast_data, features, x,
                 forecast, weather_data, result>>

(***************************************************************************)
(* POST /predict-live/{location}                                           *)
(***************************************************************************)
\* The first EXPECTED_TIME_STEPS values kept instead of the last.
LiveWindowOldest(fs) ==
  SubSeq(fs, 1, IF Len(fs) < EXPECTED_TIME_STEPS THEN Len(fs) ELSE EXPECTED_TIME_STEPS)
\* Line 155: features[-EXPECTED_TIME_STEPS:].
LiveWindow(fs) ==
  SubSeq(fs, Max(1, Len(fs) - EXPECTED_TIME_STEPS + 1), Len(fs))

\* Lines 152-154: a feature per item of the fetched list.
LiveExtractAll(items) == [i \in 1..Len(items) |-> ExtractSingleFeature(items[i])]

\* Lines 142-149: the request arrives and passes or fails the three guards.
LiveRequest ==
  /\ startup = "serving"
  /\ pc = "idle"
  /\ \E loc \in RequestLocations :
       /\ op' = "predict_live"
       /\ location' = loc
       /\ IF ~ModelsLoaded
          THEN /\ response' = ErrorResponse(500, "Models not loaded", "")
               /\ pc' = "done"
          ELSE IF weather_collector = "None"
          THEN /\ response' = ErrorResponse(500, "Weather API not configured", "")
               /\ pc' = "done"
          ELSE IF loc \notin COASTAL_LOCATIONS
          THEN /\ response' = ErrorResponse(404, "Unknown location", "")
               /\ pc' = "done"
          ELSE /\ response' = response
               /\ pc' = "fetch"
  /\ UNCHANGED <<process_vars, input, forecast_data, features, x, forecast, anomaly,
                 calls, raised, weather_data, result>>

\* Line 151: get_forecast_data returns the provider's JSON or raises
\* (weather_collector.py:40-44).  A reply without 'list' reads as the empty list.
LiveFetch ==
  /\ op = "predict_live"
  /\ pc = "fetch"
  /\ calls' = Append(calls, Call("get_forecast_data", NoArg))
  /\ \E raises \in BOOLEAN :
       IF raises
       THEN /\ raised' = "get_forecast_data"
            /\ response' = LiveFailure("get_forecast_data")
            /\ pc' = "done"
            /\ forecast_data' = forecast_data
       ELSE /\ \E kind \in ForecastKinds, n \in InputLengths :
                 forecast_data' = ForecastList(kind, n)
            /\ pc' = "extract"
            /\ UNCHANGED <<raised, response>>
  /\ UNCHANGED <<process_vars, op, input, location, features, x, forecast, anomaly,
                 weather_data, result>>

\* Lines 152-160: extract, keep the window, refuse a short one.  The
\* HTTPException(400) of line 159 is raised inside the try block, so the
\* except clause of line 192 catches it.
LiveExtract ==
  /\ op = "predict_live"
  /\ pc = "extract"
  /\ features' = LiveWindow(LiveExtractAll(forecast_data))
  /\ IF Len(features') < EXPECTED_TIME_STEPS
     THEN /\ raised' = "HTTPException"
          /\ response' = LiveFailure("HTTPException")
          /\ pc' = "done"
          /\ x' = x
     ELSE /\ x' = features'
          /\ pc' = "forecast"
          /\ UNCHANGED <<raised, response>>
  /\ UNCHANGED <<process_vars, op, input, location, forecast_data, forecast, anomaly,
                 calls, weather_data, result>>

\* The forecaster's exception swallowed: a default forecast, and on to the scorer.
LiveForecastSwallowsFailure ==
  /\ op = "predict_live"
  /\ pc = "forecast"
  /\ calls' = Append(calls, Call("lstm_model.predict", LstmInput(x)))
  /\ \E raises \in BOOLEAN :
       IF raises
       THEN /\ raised' = "lstm_model.predict"
            /\ forecast' = 0
       ELSE /\ \E v \in ForecastSamples(x) : forecast' = v
            /\ raised' = raised
  /\ pc' = "anomaly"
  /\ UNCHANGED <<process_vars, op, input, location, forecast_data, features, x,
                 anomaly, response, weather_data, result>>
\* Lines 161-162.
LiveForecast ==
  /\ op = "predict_live"
  /\ pc = "forecast"
  /\ calls' = Append(calls, Call("lstm_model.predict", LstmInput(x)))
  /\ \E raises \in BOOLEAN :
       IF raises
       THEN /\ raised' = "lstm_model.predict"
            /\ response' = LiveFailure("lstm_model.predict")
            /\ pc' = "done"
            /\ forecast' = forecast
       ELSE /\ \E v \in ForecastSamples(x) : forecast' = v
            /\ pc' = "anomaly"
            /\ UNCHANGED <<raised, response>>
  /\ UNCHANGED <<process_vars, op, input, location, forecast_data, features, x,
                 anomaly, weather_data, result>>

\* Lines 163-191.
LiveAnomaly ==
  /\ op = "predict_live"
  /\ pc = "anomaly"
  /\ calls' = Append(calls, Call("iso_forest.predict", IsoInput(x)))
  /\ \E raises \in BOOLEAN :
       IF raises
       THEN /\ raised' = "iso_forest.predict"
            /\ response' = LiveFailure("iso_forest.predict")
            /\ anomaly' = anomaly
       ELSE /\ \E a \in AnomalySamples :
                 /\ anomaly' = a
                 /\ response' = LiveResult(forecast, a, features)
            /\ raised' = raised
  /\ pc' = "done"
  /\ UNCHANGED <<process_vars, op, input, location, forecast_data, features, x,
                 forecast, weather_data, result>>

(***************************************************************************)
(* Direct calls of the collector's extractors.                             *)
(***************************************************************************)
FieldSamples(samples) == {Absent, Other} \cup {Num(samples[i]) : i \in 1..Len(samples)}
Sections == {"dict", "absent", "other"}

\* Mappings with both sections and every combination of field values, every
\* combination of sections around one stormy reading, {} and a non-mapping.
ObservationSamples ==
  {Observation("dict", "dict", "dict", p, h, t, s, d) :
     p \in FieldSamples(PressureSamples), h \in FieldSamples(HumiditySamples),
     t \in FieldSamples(TempSamples), s \in FieldSamples(SpeedSamples),
     d \in FieldSamples(DegSamples) \cup {Array}}
  \cup {Observation("dict", m, w, Num(95000), Num(100), Num(50), Num(60), Num(90)) :
          m \in Sections, w \in Sections}
  \cup {EmptyObservation, MalformedObservation}

\* _extract_single_feature(weather_item)
CallExtractSingle ==
  /\ pc = "idle"
  /\ \E item \in ObservationSamples :
       /\ weather_data' = [is_list |-> FALSE, items |-> <<item>>]
       /\ result' = [raised |-> FALSE, features |-> <<ExtractSingleFeature(item)>>]
  /\ op' = "extract_single"
  /\ pc' = "done"
  /\ UNCHANGED <<process_vars, input, location, forecast_data, features, x, forecast,
                 anomaly, calls, raised, response>>

BatchItems ==
  {EmptyObservation,
   MalformedObservation,
   Observation("dict", "dict", "absent", Num(95000), Absent, Absent, Absent, Absent),
   Observation("dict", "dict", "dict", Num(200000), Num(0), Num(0), Num(0), Num(0)),
   Observation("dict", "absent", "dict", Absent, Absent, Absent, Num(60), Num(90))}
BatchLists == UNION {[1..n -> BatchItems] : n \in 0..MaxBatch}

\* extract_flood_risk_features(weather_data), on a list or on one observation.
CallExtractBatch ==
  /\ pc = "idle"
  /\ \E data \in {[is_list |-> TRUE, items |-> l] : l \in BatchLists}
                 \cup {[is_list |-> FALSE, items |-> <<o>>] : o \in BatchItems} :
       /\ weather_data' = data
       /\ result' = ExtractFloodRiskFeatures(data)
  /\ op' = "extract_batch"
  /\ pc' = "done"
  /\ UNCHANGED <<process_vars, input, location, forecast_data, features, x, forecast,
                 anomaly, calls, raised, response>>

\* The operation has returned; the next one starts from fresh locals.
Return ==
  /\ pc = "done"
  /\ op' = "none"
  /\ pc' = "idle"
  /\ input' = <<>>
  /\ location' = ""
  /\ forecast_data' = <<>>
  /\ features' = <<>>
  /\ x' = <<>>
  /\ forecast' = 0
  /\ anomaly' = 0
  /\ calls' = <<>>
  /\ raised' = "none"
  /\ response' = NoResponse
  /\ weather_data' = NoWeatherData
  /\ result' = NoResult
  /\ UNCHANGED process_vars

Next ==
  \/ LoadLstm
  \/ LoadIso
  \/ ConfigureCollector
  \/ PredictRequest
  \/ PredictForecast
  \/ PredictAnomaly
  \/ LiveRequest
  \/ LiveFetch
  \/ LiveExtract
  \/ LiveForecast
  \/ LiveAnomaly
  \/ CallExtractSingle
  \/ CallExtractBatch
  \/ Return

Spec == Init /\ [][Next]_vars
(***************************************************************************)
(* Properties.                                                             *)
(***************************************************************************)
IsRequest == op \in {"predict", "predict_live"}
ModelCalls == SelectSeq(calls, LAMBDA c : c.fn \in {"lstm_model.predict", "iso_forest.predict"})
Fetched == \E i \in 1..Len(calls) : calls[i].fn = "get_forecast_data"

\* C1: in both entry modes the returned risk level and alert follow the
\* first-match-wins policy on the forecast and the anomaly verdict the
\* models returned: anomalous -> HIGH with the anomaly alert whatever the
\* forecast; else forecast > 8.0 -> HIGH with the flood alert; else
\* forecast > 6.5 -> MEDIUM, no alert; else LOW, no alert.  The comparisons
\* are strict: exactly 8.0 is MEDIUM and exactly 6.5 is LOW.
C1_DecisionPolicy ==
  (IsRequest /\ pc = "done" /\ response.has_result) =>
    /\ response.forecast = forecast
    /\ response.anomaly = anomaly
    /\ anomaly = -1 =>
         response.risk_level = "HIGH" /\ response.alert = ANOMALY_ALERT
    /\ (anomaly # -1 /\ forecast > 16000) =>
         response.risk_level = "HIGH" /\ response.alert = FLOOD_ALERT
    /\ (anomaly # -1 /\ forecast <= 16000 /\ forecast > 13000) =>
         response.risk_level = "MEDIUM" /\ response.alert = NoAlert
    /\ (anomaly # -1 /\ forecast <= 13000) =>
         response.risk_level = "LOW" /\ response.alert = NoAlert

\* C1 witness: a live assessment whose forecast alone would raise the flood
\* alert, answered with the anomaly alert.
C1_Witness ==
  /\ op = "predict_live" /\ pc = "done" /\ response.has_result
  /\ anomaly = -1 /\ forecast = 9 * Scale
  /\ response.risk_level = "HIGH" /\ response.alert = ANOMALY_ALERT

\* C2: a /predict/ request whose vector is not exactly EXPECTED_TIME_STEPS
\* long is answered with an error at once: no collaborator is ever called
\* for it, it gets no result, and the vector is neither truncated nor padded.
C2_WrongLengthRejectedBeforeModels ==
  (op = "predict" /\ Len(input) # 40) =>
    /\ pc = "done"
    /\ calls = <<>>
    /\ ~response.has_result
    /\ response.status >= 400
    /\ x \in {<<>>, input}

\* C2 witness: a vector one too long, with both models loaded, refused with 400.
C2_Witness ==
  /\ op = "predict" /\ Len(input) = 41 /\ ModelsLoaded
  /\ pc = "done" /\ response.status = 400 /\ calls = <<>>

\* C3: the test's request, a vector of 50 values posted to /predict/ with
\* both models loaded and working, is answered 200 with a forecast and an
\* anomaly field.
C3_FiftyValuesAccepted ==
  (op = "predict" /\ Len(input) = TEST_FEATURE_COUNT
     /\ lstm_model = "loaded" /\ iso_forest = "loaded"
     /\ pc = "done" /\ raised = "none") =>
    response.status = 200 /\ response.has_result

\* C4: when either load failed (raised into the except clause), both handles
\* are None, never one loaded and one missing; and while a handle is None
\* every /predict/ and /predict-live/ request is answered "Models not loaded"
\* with no collaborator called, no weather fetched and no result.  (A handle
\* can also be None with no load having failed, when iso_forest.pkl holds a
\* pickled None; the requests are refused then too.)
C4_ModelsUnavailable ==
  /\ load_error # "none" =>
       /\ lstm_model = "None" /\ iso_forest = "None"
       /\ startup \in {"configure", "serving"}
  /\ (IsRequest /\ (lstm_model = "None" \/ iso_forest = "None")) =>
       /\ pc = "done"
       /\ response.status = 500
       /\ response.detail = "Models not loaded"
       /\ ~response.has_result
       /\ calls = <<>>
       /\ forecast_data = <<>>

\* C4 witness: the second load failed, and a live request was refused.
C4_Witness ==
  /\ load_error = "iso_forest" /\ lstm_model = "None" /\ iso_forest = "None"
  /\ op = "predict_live" /\ pc = "done"
  /\ response.detail = "Models not loaded" /\ calls = <<>>

\* C5: a live assessment that fetched its forecast and extracted fewer
\* values than the window size ends in a client error (4xx), with neither
\* model called.
C5_ShortWindowIsClientError ==
  (op = "predict_live" /\ pc = "done" /\ Fetched /\ raised # "get_forecast_data"
     /\ Len(features) < 40) =>
    /\ ~response.has_result
    /\ response.status \in 400..499
    /\ ModelCalls = <<>>

\* C6: when lstm_model.predict or iso_forest.predict raises, in either entry
\* mode, the request gets no result, the response is a server error (5xx),
\* and the response tells which model failed (it differs from the response
\* the handler gives when the other model fails).
C6_ModelFailureIsServerError ==
  (IsRequest /\ pc = "done" /\ raised \in {"lstm_model.predict", "iso_forest.predict"}) =>
    LET other == IF raised = "lstm_model.predict" THEN "iso_forest.predict"
                 ELSE "lstm_model.predict"
    IN /\ ~response.has_result
       /\ response.status \in 500..599
       /\ response # (IF op = "predict" THEN PredictFailure(other) ELSE LiveFailure(other))

\* C7 as claimed: from a list of observations the batch extractor returns as
\* many features as the list has items, the i-th being the scalar
\* extractor's value for the i-th item.
C7_BatchSameLength ==
  (op = "extract_batch" /\ pc = "done" /\ weather_data.is_list
     /\ \A i \in 1..Len(weather_data.items) : weather_data.items[i].shape = "dict") =>
    /\ ~result.raised
    /\ Len(result.features) = Len(weather_data.items)
    /\ \A i \in 1..Len(weather_data.items) :
         result.features[i] = ExtractSingleFeature(weather_data.items[i])

\* C7 as amended: from a list of observations (mappings) the batch extractor
\* returns the scalar extractor's values for the items that have a 'main'
\* section, in input order, and skips the others; when every item has 'main'
\* the output is as long as the input and elementwise the scalar extractor.
C7_BatchKeepsItemsWithMain ==
  (op = "extract_batch" /\ pc = "done" /\ weather_data.is_list
     /\ \A i \in 1..Len(weather_data.items) : weather_data.items[i].shape = "dict") =>
    LET kept == SelectSeq(weather_data.items, LAMBDA o : o.main # "absent")
    IN /\ ~result.raised
       /\ Len(result.features) = Len(kept)
       /\ \A i \in 1..Len(kept) : result.features[i] = ExtractSingleFeature(kept[i])
       /\ Len(kept) = Len(weather_data.items) =>
            \A i \in 1..Len(weather_data.items) :
              result.features[i] = ExtractSingleFeature(weather_data.items[i])

\* C7 witness: a list of three mappings, the middle one without 'main',
\* gives two features, the first item's and the third item's.
C7_Witness ==
  /\ op = "extract_batch" /\ pc = "done" /\ weather_data.is_list
  /\ Len(weather_data.items) = 3
  /\ \A i \in 1..3 : weather_data.items[i].shape = "dict"
  /\ weather_data.items[1].main = "dict"
  /\ weather_data.items[2].main = "absent"
  /\ weather_data.items[3].main = "dict"
  /\ Len(result.features) = 2
  /\ result.features[1] # result.features[2]

\* C8: in a live assessment the array handed to the models is the last
\* EXPECTED_TIME_STEPS extracted values in their order (the whole extracted
\* sequence when there are exactly that many), and when fewer were extracted
\* no model is called: nothing is padded.
C8_LiveWindowIsLastN ==
  op = "predict_live" =>
    LET all == [i \in 1..Len(forecast_data) |-> ExtractSingleFeature(forecast_data[i])]
        L == Len(forecast_data)
    IN /\ pc \in {"forecast", "anomaly"} => Len(x) = 40
       /\ x # <<>> =>
            /\ Len(x) = 40
            /\ L >= 40
            /\ \A i \in 1..40 : x[i] = all[L - 40 + i]
            /\ L = 40 => x = all
       /\ \A k \in 1..Len(calls) :
            calls[k].fn = "lstm_model.predict" =>
              /\ L >= 40
              /\ calls[k].arg.data = x
       /\ L < 40 => ModelCalls = <<>>

\* C8 witness: five more items than the window, whose features rise with the
\* index; the assessment completed on the last forty.
C8_Witness ==
  /\ op = "predict_live" /\ pc = "done" /\ response.has_result
  /\ Len(forecast_data) = 45
  /\ x[1] = ExtractSingleFeature(forecast_data[6])
  /\ x[40] = ExtractSingleFeature(forecast_data[45])
  /\ x[1] # ExtractSingleFeature(forecast_data[1])
  /\ x[1] < x[40]

\* C9: the scalar extractor returns for every item, never raises, and
\* returns a value >= 0; when the item is no mapping, a section has no .get,
\* or a field it reads is not a number, it returns 5.0.  The same holds of
\* every feature a live assessment extracts.
C9_ExtractTotalNonNegative ==
  /\ (op = "extract_single" /\ pc = "done") =>
       LET item == weather_data.items[1]
           faulty ==
             \/ item.shape # "dict"
             \/ item.main = "other"
             \/ item.wind = "other"
             \/ item.main = "dict" /\ "other" \in {item.pressure.tag, item.humidity.tag, item.temp.tag}
             \/ item.wind = "dict" /\ "other" \in {item.speed.tag, item.deg.tag}
       IN /\ ~result.raised
          /\ Len(result.features) = 1
          /\ result.features[1] >= 0
          /\ faulty => result.features[1] = 10000
  /\ op = "predict_live" => \A i \in 1..Len(features) : features[i] >= 0

\* C9 witness: a pressure of 2000 hPa, whose raw score is below zero, gives 0.
C9_Witness ==
  /\ op = "extract_single" /\ pc = "done"
  /\ weather_data.items[1].main = "dict"
  /\ weather_data.items[1].pressure = Num(200000)
  /\ weather_data.items[1].humidity.tag = "num"
  /\ weather_data.items[1].temp.tag = "num"
  /\ weather_data.items[1].speed.tag = "num"
  /\ weather_data.items[1].deg.tag = "num"
  /\ result.features = <<0>>

\* C10: for a well-formed observation the scalar extractor returns
\* max(0, 3 * ((1013.25 - pressure)/20 + wind_speed/10 + humidity/100 +
\* temperature/50) + 5) with 1013.25, 0, 50 and 15 standing in for absent
\* fields, whatever the wind direction; {} gives 7.4; and a window of forty
\* 7.4s with a forecast equal to its mean and a normal verdict is MEDIUM.
\* (In units of 1/2000: 3 * ((101325 - P) + 200 w + 20 h + 40 t) + 10000.)
C10_ExtractFormula ==
  /\ (op = "extract_single" /\ pc = "done") =>
       LET item == weather_data.items[1]
           wellformed ==
             /\ item.shape = "dict" /\ item.main # "other" /\ item.wind # "other"
             /\ \A f \in {item.pressure, item.humidity, item.temp, item.speed, item.deg} :
                  f.tag \in {"num", "absent"}
           val(section, f, default) ==
             IF section = "absent" \/ f.tag = "absent" THEN default ELSE f.val
           P == val(item.main, item.pressure, 101325)
           w == val(item.wind, item.speed, 0)
           h == val(item.main, item.humidity, 50)
           t == val(item.main, item.temp, 15)
           raw == 3 * ((101325 - P) + 200 * w + 20 * h + 40 * t) + 10000
       IN /\ wellformed =>
               /\ result.features = <<IF raw < 0 THEN 0 ELSE raw>>
               /\ \A d \in {0, 45, 90, 180, 270, 359} :
                    ExtractSingleFeature([item EXCEPT !.deg = Num(d)]) = result.features[1]
               /\ ExtractSingleFeature([item EXCEPT !.deg = Absent]) = result.features[1]
          /\ item = EmptyObservation => result.features = <<14800>>
  /\ (IsRequest /\ pc = "done" /\ response.has_result
        /\ x = [i \in 1..40 |-> 14800] /\ forecast * 40 = SumSeq(x, 1) /\ anomaly = 1) =>
       response.risk_level = "MEDIUM"

\* C10 witness: a live assessment of forty {} items, each extracted as 7.4,
\* forecast echoing the mean, verdict normal, answered MEDIUM.
C10_Witness ==
  /\ op = "predict_live" /\ pc = "done" /\ response.has_result
  /\ Len(forecast_data) = 40
  /\ \A i \in 1..40 : forecast_data[i] = EmptyObservation
  /\ x = [i \in 1..40 |-> 14800]
  /\ forecast = 14800 /\ anomaly = 1
  /\ response.risk_level = "MEDIUM"

\* C11: in both entry modes every call of the forecaster carries the whole
\* window, exactly EXPECTED_TIME_STEPS values in order, shaped as one sample
\* of that many time steps and one channel, and every call of the anomaly
\* scorer carries one sample of one feature, the last value of that same
\* window, and nothing else of it.  The window is the posted vector
\* (/predict/) or the last extracted values (/predict-live/).
C11_ModelInputs ==
  IsRequest =>
    \A k \in 1..Len(calls) :
      /\ calls[k].fn \in {"lstm_model.predict", "iso_forest.predict"} =>
           /\ Len(x) = 40
           /\ op = "predict" => x = input
           /\ op = "predict_live" =>
                /\ x = features
                /\ \A i \in 1..40 :
                     x[i] = ExtractSingleFeature(
                              forecast_data[Len(forecast_data) - 40 + i])
      /\ calls[k].fn = "lstm_model.predict" =>
           /\ calls[k].arg.shape = <<1, 40, 1>>
           /\ Len(calls[k].arg.data) = 40
           /\ \A i \in 1..40 : calls[k].arg.data[i] = x[i]
      /\ calls[k].fn = "iso_forest.predict" =>
           /\ calls[k].arg.shape = <<1, 1>>
           /\ calls[k].arg.data = <<x[40]>>

\* C11 witness: a posted ramp of forty distinct values; the forecaster got
\* all forty, the scorer only the fortieth.
C11_Witness ==
  /\ op = "predict" /\ pc = "done" /\ response.has_result
  /\ x[1] # x[40]
  /\ Len(calls) = 2
  /\ calls[1].fn = "lstm_model.predict" /\ calls[1].arg.data = input
  /\ calls[2].fn = "iso_forest.predict" /\ calls[2].arg.data = <<input[40]>>

\* C12: within one assessment the models are called one after the other,
\* the forecaster first and the anomaly scorer second, each at most once:
\* the model calls made so far are none, the forecaster alone, or the
\* forecaster then the scorer.  When the forecaster raised, the scorer was
\* not called; a request answered with a result called each exactly once;
\* and the scorer is called only with the forecaster's value in hand.
C12_CallOrder ==
  IsRequest =>
    LET fns == [k \in 1..Len(ModelCalls) |-> ModelCalls[k].fn]
    IN /\ fns \in {<<>>, <<"lstm_model.predict">>,
                   <<"lstm_model.predict", "iso_forest.predict">>}
       /\ pc = "forecast" => fns = <<>>
       /\ pc = "anomaly" => fns = <<"lstm_model.predict">>
       /\ raised = "lstm_model.predict" =>
            fns = <<"lstm_model.predict">> /\ pc = "done" /\ ~response.has_result
       /\ raised = "iso_forest.predict" =>
            fns = <<"lstm_model.predict", "iso_forest.predict">>
       /\ response.has_result =>
            fns = <<"lstm_model.predict", "iso_forest.predict">>

\* C12 witness: a live assessment whose forecaster raised, ended with the
\* forecaster as its only model call.
C12_Witness ==
  /\ op = "predict_live" /\ pc = "done" /\ raised = "lstm_model.predict"
  /\ Len(ModelCalls) = 1 /\ ModelCalls[1].fn = "lstm_model.predict"
  /\ Len(calls) = 2 /\ calls[1].fn = "get_forecast_data"
  /\ ~response.has_result
=============================================================================
